---- MODULE Spec2Model ----
(***************************************************************************)
(* Model of sentry/stacktraces.py: locating the stack traces of an event   *)
(* payload and running them through the ordered chain of stack trace       *)
(* processors (process_stacktraces / process_single_stacktrace).           *)
(***************************************************************************)
EXTENDS Integers, Sequences, FiniteSets, TLC

(***************************************************************************)
(* Bounds of the model.                                                    *)
(***************************************************************************)
\* Largest number of frames of all stack traces of one payload together.
MaxFrames == 2
\* Largest number of processors an acquisition returns.
MaxProcs == 2
\* Largest number of exceptions / threads of a payload given to the Locator alone.
MaxValues == 2

(***************************************************************************)
(* Values.  Python's None is modelled per type: an optional sequence is a  *)
(* record [some, val], a missing mapping key a record with ok = FALSE.     *)
(***************************************************************************)
NoPlatform == "<no platform>"

EventPlatforms == {"javascript", "python"}

None == [some |-> FALSE, val |-> <<>>]

Some(s) == [some |-> TRUE, val |-> s]

\* `x or ()` of Python: None and the empty list both give the empty sequence.
OrEmpty(o) == IF o.some THEN o.val ELSE <<>>

\* A frame of the payload.  The id stands for the frame's other fields.
Frame(i, p) == [id |-> i, platform |-> p]

\* The frames a stack trace of the payload holds: frame k of record slot s.
\* The frames of the top-level stack trace (slot 2) carry their own platform.
OrigFrame(s, k) == Frame(10 * s + k, IF s = 2 THEN "cocoa" ELSE NoPlatform)

\* Frames a processor makes up for an expansion of frame f.
NewFrame(f, n) == Frame(f.id + 100 * n, f.platform)

\* An error record a processor reports for frame f.
FrameError(f, n) == [type |-> "proc_error", frame |-> f.id, n |-> n]

\* A stack trace mapping: `frames` is None when the key is missing or null;
\* `registers` stands for every other stack-trace-level field.
Stacktrace(fr) == [frames |-> fr, registers |-> "regs"]

\* exc.get('stacktrace'): ok = FALSE when the key is missing or falsy.
NoStacktrace == [ok |-> FALSE, st |-> Stacktrace(None)]

HasStacktrace(st) == [ok |-> TRUE, st |-> st]

\* An exception or a thread: the container of a stack trace.
Container(ost) == [stacktrace |-> ost, raw_stacktrace |-> NoStacktrace]

\* data.get('sentry.interfaces.Exception') / data.get('threads'):
\* kind "absent" (missing or falsy), "novalues" (a mapping without 'values'),
\* "ok" (a mapping with its list of values).
Section(k, vs) == [kind |-> k, values |-> vs]

AbsentSection == Section("absent", <<>>)

\* The frame sequence of length n of record slot s.
FramesOf(s, n) == [k \in 1..n |-> OrigFrame(s, k)]

\* The stack traces slot s may hold with up to n frames: no frame list at all,
\* or a list of 0..n frames.
StacktracesOf(s, n) == {Stacktrace(None)} \cup {Stacktrace(Some(FramesOf(s, k))) : k \in 0..n}

\* The sections of slot s: absent, without 'values', or one container with
\* a stack trace.
SectionsOf(s, n) == {AbsentSection, Section("novalues", <<>>)} \cup {Section("ok", <<Container(HasStacktrace(st))>>) : st \in StacktracesOf(s, n)}

\* Number of frames a stack trace / optional stack trace / section holds.
FrameCountOf(st) == IF st.frames.some THEN Len(st.frames.val) ELSE 0

OptFrameCount(ost) == IF ost.ok THEN FrameCountOf(ost.st) ELSE 0

SectionFrameCount(sec) == IF Len(sec.values) = 0 THEN 0 ELSE OptFrameCount(sec.values[1].stacktrace)

\* The payloads: an exception section (slot 1), a top-level stack trace
\* (slot 2), a thread section (slot 3), the event platform, the error list.
Payloads == {[exception |-> e, stacktrace |-> s, threads |-> t, platform |-> p, errors |-> er, project |-> 1] : e \in SectionsOf(1, MaxFrames), s \in {NoStacktrace} \cup {HasStacktrace(x) : x \in StacktracesOf(2, MaxFrames)}, t \in SectionsOf(3, MaxFrames), p \in EventPlatforms, er \in {None, Some(<<[type |-> "prior", frame |-> 0, n |-> 0]>>)}}

TotalFrames(d) == SectionFrameCount(d.exception) + OptFrameCount(d.stacktrace) + SectionFrameCount(d.threads)

\* The payloads given to the Locator alone.  The container at position i of
\* slot s has no stack trace, one without a frame list, or one of one frame.
LocateContainers(s, i) == {Container(NoStacktrace), Container(HasStacktrace(Stacktrace(None))), Container(HasStacktrace(Stacktrace(Some(<<OrigFrame(s, i)>>))))}

LocateValues(s, n) == {q \in [1..n -> UNION {LocateContainers(s, i) : i \in 1..n}] : \A i \in 1..n : q[i] \in LocateContainers(s, i)}

LocateSections(s) == {AbsentSection, Section("novalues", <<>>)} \cup {Section("ok", q) : q \in UNION {LocateValues(s, n) : n \in 0..MaxValues}}

LocatePayloads == {[exception |-> e, stacktrace |-> t, threads |-> th, platform |-> p, errors |-> None, project |-> 1] : e \in LocateSections(1), t \in {NoStacktrace, HasStacktrace(Stacktrace(None)), HasStacktrace(Stacktrace(Some(<<OrigFrame(2, 1)>>)))}, th \in LocateSections(3), p \in EventPlatforms}

(***************************************************************************)
(* find_stacktraces_in_data                                                *)
(***************************************************************************)
\* frame.get('platform') or data['platform']
EffectivePlatform(d, f) == IF f.platform # NoPlatform THEN f.platform ELSE d.platform

\* _report_stack: the platforms of `stacktrace.get('frames') or ()`.
ReportPlatforms(d, st) == {EffectivePlatform(d, OrEmpty(st.frames)[k]) : k \in 1..Len(OrEmpty(st.frames))}

\* A StacktraceInfo.  The stacktrace and container references are the place
\* in the payload: the section (slot) and the position in its list of values;
\* the container is None exactly for the slot "stacktrace".
StacktraceInfo(d, slot, i, st) == [slot |-> slot, index |-> i, platforms |-> ReportPlatforms(d, st)]

\* The records of one section, in list order: a value without a (truthy)
\* stack trace reports nothing.
SectionInfos(d, slot, sec) == LET Has(i) == sec.values[i].stacktrace.ok
                                  idxs == SelectSeq([i \in 1..Len(sec.values) |-> i], Has)
                              IN [j \in 1..Len(idxs) |-> StacktraceInfo(d, slot, idxs[j], sec.values[idxs[j]].stacktrace.st)]

\* exc_container['values'] / threads['values'] raises KeyError when the
\* section is a mapping that has no 'values'.
LocateRaises(d) == d.exception.kind = "novalues" \/ d.threads.kind = "novalues"

\* A Locator that reports the threads before the top-level stack trace.
find_stacktraces_threads_first(d) == SectionInfos(d, "exception", d.exception) \o SectionInfos(d, "threads", d.threads) \o (IF d.stacktrace.ok THEN <<StacktraceInfo(d, "stacktrace", 0, d.stacktrace.st)>> ELSE <<>>)

find_stacktraces_in_data(d) == SectionInfos(d, "exception", d.exception) \o (IF d.stacktrace.ok THEN <<StacktraceInfo(d, "stacktrace", 0, d.stacktrace.st)>> ELSE <<>>) \o SectionInfos(d, "threads", d.threads)

\* stacktrace_info.stacktrace: the stack trace object a record refers to.
StacktraceAt(d, info) == CASE info.slot = "exception" -> d.exception.values[info.index].stacktrace.st
                           [] info.slot = "threads" -> d.threads.values[info.index].stacktrace.st
                           [] OTHER -> d.stacktrace.st

\* stacktrace_info.container is not None
HasContainer(info) == info.slot # "stacktrace"

(***************************************************************************)
(* get_metrics_key                                                         *)
(***************************************************************************)
PlatformsOf(is) == UNION {is[k].platforms : k \in 1..Len(is)}

\* A key chosen by membership: a platform among several gets its dedicated key.
get_metrics_key_by_membership(is) == IF "javascript" \in PlatformsOf(is) THEN "sourcemaps.process" ELSE IF "cocoa" \in PlatformsOf(is) THEN "dsym.process" ELSE "mixed.process"

get_metrics_key(is) == IF Cardinality(PlatformsOf(is)) = 1 /\ "javascript" \in PlatformsOf(is) THEN "sourcemaps.process" ELSE IF Cardinality(PlatformsOf(is)) = 1 /\ "cocoa" \in PlatformsOf(is) THEN "dsym.process" ELSE "mixed.process"

(***************************************************************************)
(* What a processor may answer.  The processors are code outside this      *)
(* module: every call answers with any of these.                           *)
(***************************************************************************)
\* process_frame: "none" is None, "raise" a raised Exception, "falsy" a
\* result that is not None but falsy (an empty tuple), "tuple" a triple
\* (expand_processed, expand_raw, errors).
Rv(k, ep, er, errs) == [kind |-> k, processed |-> ep, raw |-> er, errors |-> errs]

ResultTuples(f) == {Rv("tuple", None, None, None), Rv("tuple", None, None, Some(<<FrameError(f, 1)>>)), Rv("tuple", Some(<<f>>), None, None), Rv("tuple", None, Some(<<NewFrame(f, 1), NewFrame(f, 2)>>), Some(<<>>)), Rv("tuple", Some(<<>>), Some(<<f>>), Some(<<FrameError(f, 1), FrameError(f, 2)>>)), Rv("tuple", Some(<<NewFrame(f, 1), NewFrame(f, 2)>>), Some(<<>>), None)}

FrameOutcomes(f) == {Rv("none", None, None, None), Rv("raise", None, None, None), Rv("falsy", None, None, None)} \cup ResultTuples(f)

\* preprocess_related_data: a truthy or falsy answer, or a raised exception.
PreprocessOutcomes == {"true", "false", "raise"}

(***************************************************************************)
(* State.                                                                  *)
(***************************************************************************)
VARIABLES
  data,               \* the event payload (mutated in place)
  pc,                 \* where process_stacktraces stands
  infos,              \* find_stacktraces_in_data(data)
  processors,         \* number of processors acquired (they are P1..Pn)
  changed,            \* process_stacktraces: changed
  mkey,               \* process_stacktraces: mkey
  minstance,          \* metrics.timer: the instance tag of the timer
  timer,              \* metrics.timer: "none", "running", "exited"
  result,             \* what process_stacktraces returned: "None" or "data"
  pi,                 \* processor of the preprocess / close loop
  ti,                 \* record of the loop over infos
  idx,                \* process_single_stacktrace: idx (0-based)
  pj,                 \* process_single_stacktrace: processor of the chain
  frame_count,        \* process_single_stacktrace: frame_count
  changed_raw,        \* process_single_stacktrace: changed_raw
  changed_processed,  \* process_single_stacktrace: changed_processed
  raw_frames,         \* process_single_stacktrace: raw_frames
  processed_frames,   \* process_single_stacktrace: processed_frames
  all_errors,         \* process_single_stacktrace: all_errors
  ret,                \* the last return value of process_single_stacktrace
  raisedBy,           \* the call whose exception left process_stacktraces
  data0,              \* history: the payload as it was passed in
  calls,              \* history: the process_frame calls of the frame being chained
  hooks,              \* history: the hooks invoked so far, close per processor
  dirty,              \* history: the reasons the run became dirty
  seen,               \* history: a call raised / answered / expanded, in this run
  expanded,           \* history: a result of this trace expanded, per variant
  reported,           \* history: the errors of all results of the run, in order
  frames_done,        \* history: number of frames whose chain has finished
  records_done        \* history: number of records merged into the payload

\* The locals of process_single_stacktrace.
locals == <<idx, pj, frame_count, changed_raw, changed_processed, raw_frames, processed_frames, all_errors>>

\* What only the process_frame calls change among the history.
chain_history == <<calls, seen, expanded, reported, frames_done>>

vars == <<data, pc, infos, processors, changed, mkey, minstance, timer, result, pi, ti, locals, ret, raisedBy, data0, hooks, dirty, chain_history, records_done>>

NoRet == [processed |-> NoStacktrace, raw |-> NoStacktrace, errors |-> <<>>]

NoHooks == [preprocess |-> 0, process_frame |-> FALSE, close |-> <<>>]

NothingSeen == [fault |-> FALSE, match |-> FALSE, expansion |-> FALSE]

NotExpanded == [processed |-> FALSE, raw |-> FALSE]

Init == /\ data \in {d \in Payloads : TotalFrames(d) <= MaxFrames}
        /\ data0 = data
        /\ pc = "locate"
        /\ infos = <<>>
        /\ processors = 0
        /\ changed = FALSE
        /\ mkey = ""
        /\ minstance = 0
        /\ timer = "none"
        /\ result = "pending"
        /\ pi = 1
        /\ ti = 1
        /\ idx = 0
        /\ pj = 1
        /\ frame_count = 0
        /\ changed_raw = FALSE
        /\ changed_processed = FALSE
        /\ raw_frames = <<>>
        /\ processed_frames = <<>>
        /\ all_errors = <<>>
        /\ ret = NoRet
        /\ raisedBy = ""
        /\ calls = <<>>
        /\ hooks = NoHooks
        /\ dirty = {}
        /\ seen = NothingSeen
        /\ expanded = NotExpanded
        /\ reported = <<>>
        /\ frames_done = 0
        /\ records_done = 0

(***************************************************************************)
(* process_single_stacktrace, piece by piece.                              *)
(***************************************************************************)
\* The frame the chain stands at, and its reverse index.
CurStacktrace == StacktraceAt(data, infos[ti])

CurFrame == CurStacktrace.frames.val[idx + 1]

\* A reverse index counted from the frames put out so far.
ReverseIndexFromOutput == frame_count - Len(processed_frames) - 1

\* 'reverse_index': frame_count - idx - 1 (line 131)
ReverseIndex == frame_count - idx - 1

\* A handler that catches nothing: the fault leaves the chain.
CaughtNothing(rv) == FALSE

\* try/except around process_frame: `except Exception` catches the fault.
Caught(rv) == rv.kind = "raise"

\* A chain that takes a result without any expansion for "no opinion".
IsMatchOnlyIfExpanded(rv) == rv.kind = "tuple" /\ (rv.processed.some \/ rv.raw.some)

\* `if rv is None: continue` and the except clause's `continue` go on to the
\* next processor; every other answer reaches `break`.
IsMatch(rv) == rv.kind # "none" /\ rv.kind # "raise"

\* expand_processed, expand_raw, errors = rv or (None, None, None)
Unpack(rv) == IF rv.kind = "tuple" THEN rv ELSE Rv("tuple", None, None, None)

\* The triple of a frame no processor answered for: the need flags stay
\* True and errors stays None.
NoAnswer == Rv("tuple", None, None, None)

\* processed_frames after frame f with the triple t: the expansion when it
\* is not None (lines 138-141), else the frame itself (lines 150-151).
ProcessedAfter(pf, f, t) == pf \o (IF t.processed.some THEN t.processed.val ELSE <<f>>)

\* A raw variant that keeps the original frame next to its expansion.
RawAfterKeepsOriginal(rf, f, t) == rf \o <<f>> \o (IF t.raw.some THEN t.raw.val ELSE <<>>)

\* raw_frames after frame f (lines 143-146, 152-153).
RawAfter(rf, f, t) == rf \o (IF t.raw.some THEN t.raw.val ELSE <<f>>)

\* One flag for both variants: a raw expansion marks the processed variant.
ChangedProcessedAfterEither(c, t) == c \/ t.processed.some \/ t.raw.some

\* changed_processed / changed_raw after the triple t (lines 140, 145).
ChangedProcessedAfter(c, t) == c \/ t.processed.some

\* A raw flag that is set whatever the result holds.
ChangedRawAlways(c, t) == TRUE

ChangedRawAfter(c, t) == c \/ t.raw.some

\* all_errors.extend(errors or ())
ErrorsAfter(es, t) == es \o OrEmpty(t.errors)

\* "Unchanged" decided by comparing the frames with the input.
ReturnedIfDifferent(flag, st, frames) == IF flag /\ Some(frames) # st.frames THEN [ok |-> TRUE, st |-> [st EXCEPT !.frames = Some(frames)]] ELSE [ok |-> FALSE, st |-> [frames |-> None, registers |-> "regs"]]

\* The return value for one variant: dict(stacktrace, frames=...) if the
\* variant changed, else None.
ReturnedStacktrace(flag, st, frames) == IF flag THEN HasStacktrace([st EXCEPT !.frames = Some(frames)]) ELSE NoStacktrace

(***************************************************************************)
(* The merge of process_stacktraces, piece by piece.                       *)
(***************************************************************************)
\* A merge that keeps the new frames only and loses the other fields.
SetStacktraceFramesOnly(d, info, st) == CASE info.slot = "exception" -> [d EXCEPT !.exception.values[info.index].stacktrace.st = [st EXCEPT !.registers = "lost"]]
                                          [] info.slot = "threads" -> [d EXCEPT !.threads.values[info.index].stacktrace.st = [st EXCEPT !.registers = "lost"]]
                                          [] OTHER -> [d EXCEPT !.stacktrace.st = [st EXCEPT !.registers = "lost"]]

\* stacktrace_info.stacktrace.clear(); .update(new_stacktrace)
SetStacktrace(d, info, st) == CASE info.slot = "exception" -> [d EXCEPT !.exception.values[info.index].stacktrace.st = st]
                                [] info.slot = "threads" -> [d EXCEPT !.threads.values[info.index].stacktrace.st = st]
                                [] OTHER -> [d EXCEPT !.stacktrace.st = st]

\* stacktrace_info.container['raw_stacktrace'] = raw_stacktrace
SetRaw(d, info, ost) == CASE info.slot = "exception" -> [d EXCEPT !.exception.values[info.index].raw_stacktrace = ost]
                          [] info.slot = "threads" -> [d EXCEPT !.threads.values[info.index].raw_stacktrace = ost]
                          [] OTHER -> d

\* stacktrace_info.container['raw_stacktrace'] as the payload holds it.
RawAt(d, info) == IF info.slot = "exception" THEN d.exception.values[info.index].raw_stacktrace ELSE d.threads.values[info.index].raw_stacktrace

\* Errors put in front of the list instead of behind it.
ExtendErrorsInFront(d, errs) == [d EXCEPT !.errors = Some(errs \o OrEmpty(d.errors))]

\* data.setdefault('errors', []).extend(errors)
ExtendErrors(d, errs) == [d EXCEPT !.errors = Some(OrEmpty(d.errors) \o errs)]

\* The three conditions of the merge (lines 203, 207-208, 211).
MergesProcessed(r) == r.processed.ok

\* A raw merge that does not look at the container.
MergesRawAnyRecord(r, info) == r.raw.ok

MergesRaw(r, info) == r.raw.ok /\ HasContainer(info)

\* A merge that drops the errors.
MergesErrorsNever(r) == FALSE

MergesErrors(r) == Len(r.errors) > 0

MergedData(d, info, r) == LET d1 == IF MergesProcessed(r) THEN SetStacktrace(d, info, r.processed.st) ELSE d
                              d2 == IF MergesRaw(r, info) THEN SetRaw(d1, info, r.raw) ELSE d1
                          IN IF MergesErrors(r) THEN ExtendErrors(d2, r.errors) ELSE d2

\* A merge whose appended errors do not mark the run.
MergeChangesNoErrors(r, info) == r.processed.ok \/ (r.raw.ok /\ info.slot # "stacktrace")

MergeChanges(r, info) == MergesProcessed(r) \/ MergesRaw(r, info) \/ MergesErrors(r)

\* No early return.
EarlyOutNever(n) == FALSE

\* `if not processors: return`
EarlyOut(n) == n = 0

\* The answer of the preprocess hook is ignored.
PreprocessIgnored(c, r) == c

\* `if processor.preprocess_related_data(): changed = True`
PreprocessChanges(c, r) == c \/ r = "true"

\* `if changed: return data` (falling off the end returns None)
ReturnValue(c) == IF c THEN "data" ELSE "None"

(***************************************************************************)
(* Actions.                                                                *)
(***************************************************************************)
\* An exception that leaves the timer running.
RaiseKeepsTimer(by) == /\ pc' = "raised"
                       /\ raisedBy' = by
                       /\ UNCHANGED timer

\* An exception leaves process_stacktraces: nothing catches it, and the
\* timer's context is left on the way out.
Raise(by) == /\ pc' = "raised"
             /\ raisedBy' = by
             /\ timer' = IF timer = "running" THEN "exited" ELSE timer

\* line 180: infos = find_stacktraces_in_data(data)
Locate == /\ pc = "locate"
          /\ IF LocateRaises(data)
                THEN Raise("find_stacktraces_in_data") /\ UNCHANGED infos
                ELSE /\ infos' = find_stacktraces_in_data(data)
                     /\ pc' = "acquire"
                     /\ UNCHANGED <<raisedBy, timer>>
          /\ UNCHANGED <<data, processors, changed, mkey, minstance, result, pi, ti, locals, ret, data0, hooks, dirty, chain_history, records_done>>

\* lines 181-195: the processors are acquired; without any the function
\* returns at once, else the timer starts.
Acquire == /\ pc = "acquire"
           /\ \E n \in 0..MaxProcs :
                /\ processors' = n
                /\ hooks' = [hooks EXCEPT !.close = [k \in 1..n |-> 0]]
                /\ IF EarlyOut(n)
                      THEN /\ pc' = "done"
                           /\ result' = "None"
                           /\ UNCHANGED <<mkey, minstance, timer>>
                      ELSE /\ pc' = "preprocess"
                           /\ mkey' = get_metrics_key(infos)
                           /\ minstance' = data.project
                           /\ timer' = "running"
                           /\ UNCHANGED result
           /\ changed' = FALSE
           /\ pi' = 1
           /\ UNCHANGED <<data, infos, ti, locals, ret, raisedBy, data0, dirty, chain_history, records_done>>

\* A preprocess phase that calls the first processor's hook only.
PreprocessFirstOnly == /\ pc = "preprocess"
                       /\ hooks' = [hooks EXCEPT !.preprocess = hooks.preprocess + 1]
                       /\ \E r \in PreprocessOutcomes :
                            IF r = "raise"
                               THEN Raise("preprocess_related_data") /\ UNCHANGED <<changed, dirty, pi, ti>>
                               ELSE /\ changed' = PreprocessChanges(changed, r)
                                    /\ dirty' = IF r = "true" THEN dirty \cup {"preprocess"} ELSE dirty
                                    /\ pi' = 1
                                    /\ ti' = 1
                                    /\ pc' = IF Len(infos) > 0 THEN "trace" ELSE "close"
                                    /\ UNCHANGED <<raisedBy, timer>>
                       /\ UNCHANGED <<data, infos, processors, mkey, minstance, result, locals, ret, data0, chain_history, records_done>>

\* lines 196-198: one preprocess_related_data call.
Preprocess == /\ pc = "preprocess"
              /\ hooks' = [hooks EXCEPT !.preprocess = hooks.preprocess + 1]
              /\ \E r \in PreprocessOutcomes :
                   IF r = "raise"
                      THEN Raise("preprocess_related_data") /\ UNCHANGED <<changed, dirty, pi, ti>>
                      ELSE /\ changed' = PreprocessChanges(changed, r)
                           /\ dirty' = IF r = "true" THEN dirty \cup {"preprocess"} ELSE dirty
                           /\ IF pi < processors
                                 THEN pi' = pi + 1 /\ UNCHANGED <<pc, ti>>
                                 ELSE /\ pi' = 1
                                      /\ ti' = 1
                                      /\ pc' = IF Len(infos) > 0 THEN "trace" ELSE "close"
                           /\ UNCHANGED <<raisedBy, timer>>
              /\ UNCHANGED <<data, infos, processors, mkey, minstance, result, locals, ret, data0, chain_history, records_done>>

\* lines 116-122: process_single_stacktrace starts on record ti; reading
\* the frame list raises when the stack trace has none.
BeginTrace == /\ pc = "trace"
              /\ IF ~CurStacktrace.frames.some
                    THEN Raise("frames") /\ UNCHANGED <<locals, expanded>>
                    ELSE /\ changed_raw' = FALSE
                         /\ changed_processed' = FALSE
                         /\ raw_frames' = <<>>
                         /\ processed_frames' = <<>>
                         /\ all_errors' = <<>>
                         /\ frame_count' = Len(CurStacktrace.frames.val)
                         /\ idx' = 0
                         /\ pj' = 1
                         /\ expanded' = NotExpanded
                         /\ pc' = IF Len(CurStacktrace.frames.val) = 0 THEN "merge" ELSE "chain"
                         /\ UNCHANGED <<raisedBy, timer>>
              /\ UNCHANGED <<data, infos, processors, changed, mkey, minstance, result, pi, ti, ret, data0, hooks, dirty, calls, seen, reported, frames_done, records_done>>

\* lines 137-154: the chain of frame f ends with the triple t.
FrameEnd(f, t) == /\ processed_frames' = ProcessedAfter(processed_frames, f, t)
                  /\ changed_processed' = ChangedProcessedAfter(changed_processed, t)
                  /\ raw_frames' = RawAfter(raw_frames, f, t)
                  /\ changed_raw' = ChangedRawAfter(changed_raw, t)
                  /\ all_errors' = ErrorsAfter(all_errors, t)
                  /\ idx' = idx + 1
                  /\ pj' = 1
                  /\ frames_done' = frames_done + 1
                  /\ pc' = IF idx + 1 = frame_count THEN "merge" ELSE "chain"
                  /\ UNCHANGED <<frame_count, raisedBy, timer>>

\* lines 127-154: one process_frame call of the chain and what follows it.
ProcessFrame == /\ pc = "chain"
                /\ \E rv \in FrameOutcomes(CurFrame) :
                     /\ calls' = (IF pj = 1 THEN <<>> ELSE calls) \o <<[record |-> ti, frame |-> CurFrame, reverse_index |-> ReverseIndex, proc |-> pj, rv |-> rv]>>
                     /\ seen' = [fault |-> seen.fault \/ rv.kind = "raise", match |-> seen.match \/ rv.kind \in {"falsy", "tuple"}, expansion |-> seen.expansion \/ rv.processed.some \/ rv.raw.some]
                     /\ expanded' = [processed |-> expanded.processed \/ rv.processed.some, raw |-> expanded.raw \/ rv.raw.some]
                     /\ reported' = reported \o OrEmpty(rv.errors)
                     /\ IF rv.kind = "raise" /\ ~Caught(rv)
                           THEN Raise("process_frame") /\ UNCHANGED <<locals, frames_done>>
                           ELSE IF IsMatch(rv)
                                   THEN FrameEnd(CurFrame, Unpack(rv))
                                   ELSE IF pj < processors
                                           THEN /\ pj' = pj + 1
                                                /\ UNCHANGED <<pc, idx, frame_count, changed_raw, changed_processed, raw_frames, processed_frames, all_errors, raisedBy, timer, frames_done>>
                                           ELSE FrameEnd(CurFrame, NoAnswer)
                /\ hooks' = [hooks EXCEPT !.process_frame = TRUE]
                /\ UNCHANGED <<data, infos, processors, changed, mkey, minstance, result, pi, ti, ret, data0, dirty, records_done>>

\* lines 156-162 and 201-213: process_single_stacktrace returns and the
\* result is merged into the payload.
MergeStacktrace == /\ pc = "merge"
                   /\ LET r == [processed |-> ReturnedStacktrace(changed_processed, CurStacktrace, processed_frames), raw |-> ReturnedStacktrace(changed_raw, CurStacktrace, raw_frames), errors |-> all_errors]
                      IN /\ ret' = r
                         /\ data' = MergedData(data, infos[ti], r)
                         /\ changed' = (changed \/ MergeChanges(r, infos[ti]))
                         /\ dirty' = dirty \cup (IF r.processed.ok THEN {"processed"} ELSE {}) \cup (IF r.raw.ok /\ infos[ti].slot # "stacktrace" THEN {"raw"} ELSE {}) \cup (IF r.errors # <<>> THEN {"errors"} ELSE {})
                   /\ records_done' = records_done + 1
                   /\ IF ti < Len(infos)
                         THEN ti' = ti + 1 /\ pc' = "trace"
                         ELSE pc' = "close" /\ UNCHANGED ti
                   /\ pi' = 1
                   /\ calls' = <<>>
                   /\ UNCHANGED <<infos, processors, mkey, minstance, timer, result, locals, raisedBy, data0, hooks, seen, expanded, reported, frames_done>>

\* lines 215-216: one close call; after the last one the timed block ends.
Close == /\ pc = "close"
         /\ hooks' = [hooks EXCEPT !.close[pi] = hooks.close[pi] + 1]
         /\ IF pi < processors
               THEN pi' = pi + 1 /\ UNCHANGED <<pc, timer>>
               ELSE pc' = "return" /\ timer' = "exited" /\ UNCHANGED pi
         /\ UNCHANGED <<data, infos, processors, changed, mkey, minstance, result, ti, locals, ret, raisedBy, data0, dirty, chain_history, records_done>>

\* lines 218-219: the payload is returned if something changed, else None.
Return == /\ pc = "return"
          /\ result' = ReturnValue(changed)
          /\ pc' = "done"
          /\ UNCHANGED <<data, infos, processors, changed, mkey, minstance, timer, pi, ti, locals, ret, raisedBy, data0, hooks, dirty, chain_history, records_done>>

Next == Locate \/ Acquire \/ Preprocess \/ BeginTrace \/ ProcessFrame \/ MergeStacktrace \/ Close \/ Return

Spec == Init /\ [][Next]_vars

\* find_stacktraces_in_data alone, on the payloads of LocatePayloads.
InitLocate == /\ data \in LocatePayloads
              /\ data0 = data
              /\ pc = "locate"
              /\ infos = <<>>
              /\ processors = 0
              /\ changed = FALSE
              /\ mkey = ""
              /\ minstance = 0
              /\ timer = "none"
              /\ result = "pending"
              /\ pi = 1
              /\ ti = 1
              /\ idx = 0
              /\ pj = 1
              /\ frame_count = 0
              /\ changed_raw = FALSE
              /\ changed_processed = FALSE
              /\ raw_frames = <<>>
              /\ processed_frames = <<>>
              /\ all_errors = <<>>
              /\ ret = NoRet
              /\ raisedBy = ""
              /\ calls = <<>>
              /\ hooks = NoHooks
              /\ dirty = {}
              /\ seen = NothingSeen
              /\ expanded = NotExpanded
              /\ reported = <<>>
              /\ frames_done = 0
              /\ records_done = 0

NextLocate == Locate

SpecLocate == InitLocate /\ [][NextLocate]_vars

(***************************************************************************)
(* Claims.                                                                 *)
(***************************************************************************)
Last(q) == q[Len(q)]

\* A process_frame call has just been made (the step appended it to calls).
Called == calls' # calls /\ calls' # <<>>

\* What a variant gains from the answer rv for frame f, read off the answer.
Gain(f, kind, e) == IF kind = "tuple" /\ e.some THEN e.val ELSE <<f>>

\* C1: first match wins.  The calls made for one frame are P1, P2, ... in
\* registration order, each once; every call before the last answered None
\* or raised; the chain of a frame goes on exactly while no result was
\* returned, and stops at the first result (also one with both expansions
\* None), whose expansions and errors are the ones appended.
C1_Order == /\ Len(calls) <= processors
            /\ \A k \in 1..Len(calls) : calls[k].proc = k /\ calls[k].record = calls[1].record /\ calls[k].frame = calls[1].frame
            /\ \A k \in 1..(Len(calls) - 1) : calls[k].rv.kind \in {"none", "raise"}
            /\ (pc = "chain" /\ pj > 1) => (Len(calls) = pj - 1 /\ Last(calls).rv.kind \in {"none", "raise"})
            /\ (calls # <<>> /\ pj = 1) => (Last(calls).rv.kind \in {"falsy", "tuple"} \/ Len(calls) = processors)

C1_Used ==
  (Called /\ Last(calls').rv.kind \in {"falsy", "tuple"}) =>
    (LET c == Last(calls')
     IN /\ pj' = 1
        /\ idx' = idx + 1
        /\ processed_frames' = processed_frames \o Gain(c.frame, c.rv.kind, c.rv.processed)
        /\ raw_frames' = raw_frames \o Gain(c.frame, c.rv.kind, c.rv.raw)
        /\ all_errors' = all_errors \o (IF c.rv.kind = "tuple" /\ c.rv.errors.some THEN c.rv.errors.val ELSE <<>>))

C1_FirstMatchWins == [](C1_Order) /\ [][C1_Used]_vars

\* C1 witness: with two processors, P1 returned a result whose expansions
\* are both None and the frame's chain ended without calling P2.
C1_Witness == processors = 2 /\ pc = "merge" /\ Len(calls) = 1 /\ calls[1].rv = Rv("tuple", None, None, None)

\* C2: a fault of process_frame counts as "no opinion".  It never leaves
\* process_stacktraces; the next processor is tried for the same frame, or,
\* after the last one, the frame is kept as it is and the chain moves on;
\* a run with a fault that returns has chained every frame of every record.
C2_Continues ==
  (Called /\ Last(calls').rv.kind = "raise") =>
    /\ pc' \in {"chain", "merge"}
    /\ IF pj < processors
          THEN /\ pc' = "chain"
               /\ pj' = pj + 1
               /\ idx' = idx
               /\ UNCHANGED <<processed_frames, raw_frames, all_errors, changed_processed, changed_raw>>
          ELSE /\ pj' = 1
               /\ idx' = idx + 1
               /\ processed_frames' = Append(processed_frames, Last(calls').frame)
               /\ raw_frames' = Append(raw_frames, Last(calls').frame)
               /\ UNCHANGED <<all_errors, changed_processed, changed_raw>>

C2_FaultIsolated == /\ [](raisedBy # "process_frame")
                    /\ []((pc = "done" /\ seen.fault) => (frames_done = TotalFrames(data0) /\ records_done = Len(infos)))
                    /\ [][C2_Continues]_vars

\* C2 witness: the only processor raised in the first record, and the only
\* frame of the second record has been processed with its result.
C2_Witness == processors = 1 /\ seen.fault /\ pc = "merge" /\ ti = 2 /\ frame_count = 1 /\ calls[1].rv.kind = "tuple" /\ changed_processed

\* C3: the variants are independent.  A result with a raw expansion and no
\* processed expansion appends the original frame to processed_frames and the
\* expansion to raw_frames, and the other way round; a step sets
\* changed_processed only with a processed expansion, changed_raw only with
\* a raw expansion.
C3_Step ==
  (Called /\ pc' # "raised") =>
    (LET c == Last(calls')
     IN /\ (c.rv.raw.some /\ ~c.rv.processed.some) =>
              (/\ processed_frames' = Append(processed_frames, c.frame)
               /\ raw_frames' = raw_frames \o c.rv.raw.val
               /\ changed_processed' = changed_processed
               /\ changed_raw')
        /\ (c.rv.processed.some /\ ~c.rv.raw.some) =>
              (/\ raw_frames' = Append(raw_frames, c.frame)
               /\ processed_frames' = processed_frames \o c.rv.processed.val
               /\ changed_raw' = changed_raw
               /\ changed_processed')
        /\ (changed_processed' # changed_processed) => c.rv.processed.some
        /\ (changed_raw' # changed_raw) => c.rv.raw.some)

C3_VariantIndependence == [][C3_Step]_vars

\* C3 witness: a trace in which only raw expansions were returned: the
\* processed output is the original frames, the raw output is not.
C3_Witness == pc = "merge" /\ frame_count > 0 /\ changed_raw /\ ~changed_processed /\ processed_frames = CurStacktrace.frames.val /\ raw_frames # CurStacktrace.frames.val

\* C4: process_single_stacktrace returns None for a variant exactly when no
\* result of the trace carried an expansion for that variant, whatever the
\* frames built are.
C4_UnchangedIffNoExpansion == (records_done > 0 /\ pc \in {"trace", "close", "return", "done"}) => ((ret.processed.ok <=> expanded.processed) /\ (ret.raw.ok <=> expanded.raw))

\* C4 witness: a raw result that is returned although its frames are the
\* input's frames, beside a processed result that is returned empty.
C4_Witness == /\ records_done = 1 /\ pc = "close" /\ Len(infos) = 1
              /\ ret.raw.ok /\ ret.raw.st.frames = StacktraceAt(data0, infos[1]).frames /\ Len(ret.raw.st.frames.val) > 0
              /\ ret.processed.ok /\ ret.processed.st.frames = Some(<<>>)

\* C5: a run with at least one processor that returns, returns the payload
\* exactly when the run became dirty (a preprocess hook answered true, a
\* processed result was returned, a raw result was returned for a record
\* with a container, or errors were returned), and None otherwise.
C5_ResultIffDirty == (pc = "done" /\ processors > 0) => (result \in {"data", "None"} /\ (result = "data" <=> dirty # {}))

\* C5 witness: a run that returned the payload only because a raw result
\* was attached to a container.
C5_Witness == pc = "done" /\ processors > 0 /\ result = "data" /\ dirty = {"raw"}

\* C6: when no result of the run carried an expansion, every return value of
\* process_single_stacktrace is (None, None, errors), the stack traces and
\* containers of the payload are as they were passed in, and, once errors
\* were returned, the error list is the prior list followed by exactly the
\* returned errors and the run returns the payload.
C6_ErrorsOnly == (~seen.expansion) => /\ ~ret.processed.ok /\ ~ret.raw.ok
                                      /\ data.exception = data0.exception /\ data.stacktrace = data0.stacktrace /\ data.threads = data0.threads
                                      /\ (reported # <<>> /\ pc \in {"trace", "close", "return", "done"}) => (changed /\ data.errors = Some(OrEmpty(data0.errors) \o reported))
                                      /\ (reported # <<>> /\ pc = "done") => result = "data"

\* C6 witness: an exception's trace of two frames, one error returned for its
\* last frame (reverse index 0) with no expansion; the run returned the payload.
C6_Witness == /\ pc = "done" /\ ~seen.expansion /\ result = "data" /\ dirty = {"errors"}
              /\ data0.exception.kind = "ok" /\ frames_done = 2 /\ Len(infos) = 1
              /\ reported = <<FrameError(OrigFrame(1, 2), 1)>>

\* C7: with no processor acquired the run is over at once: it returns None,
\* no timer was started, no hook was invoked, the payload is as passed in.
C7_NoProcessors == (processors = 0 /\ pc \notin {"locate", "acquire", "raised"}) => (pc = "done" /\ result = "None" /\ timer = "none" /\ mkey = "" /\ hooks = NoHooks /\ data = data0)

\* C7 witness: stack traces were found, no processor was acquired.
C7_Witness == pc = "done" /\ processors = 0 /\ Len(infos) > 0 /\ TotalFrames(data) > 0

\* C8 as stated: with no stack trace found the run returns None and no
\* timer is recorded, whatever the acquisition returned.
C8_Original == (pc = "done" /\ Len(infos) = 0) => (result = "None" /\ timer = "none")

\* C8 amended: with no stack trace found no process_frame call is made and
\* the payload is not touched; without processors the run returns None and
\* no timer is recorded; with processors the timer is recorded under the
\* fallback key and the run returns None unless a preprocess hook answered
\* true, and then the payload.
C8_Amended == (pc = "done" /\ Len(infos) = 0) => /\ ~hooks.process_frame
                                                 /\ data = data0
                                                 /\ IF processors = 0
                                                       THEN result = "None" /\ timer = "none"
                                                       ELSE timer = "exited" /\ mkey = "mixed.process" /\ (result = "data" <=> "preprocess" \in dirty) /\ (result = "None" <=> "preprocess" \notin dirty)

\* C8 witness: no stack trace, two processors, one preprocess hook answered
\* true: the timer ran and the payload was returned.
C8_Witness == pc = "done" /\ Len(infos) = 0 /\ processors = 2 /\ timer = "exited" /\ result = "data"

\* C9 as stated: a run in which frames were chained and every process_frame
\* call returned None returns None and leaves the payload as it was.
C9_Original == (pc = "done" /\ frames_done > 0 /\ ~seen.match /\ ~seen.fault) => (result = "None" /\ data = data0)

\* C9 amended: a run that returns and in which every process_frame call
\* returned None leaves the payload as it was and returns None unless a
\* preprocess hook answered true, and then the payload.
C9_Amended == (pc = "done" /\ ~seen.match /\ ~seen.fault) => (data = data0 /\ (result = "None" <=> "preprocess" \notin dirty) /\ (result = "data" <=> "preprocess" \in dirty))

\* C9 witness: two processors were asked for two frames, none answered, no
\* preprocess hook answered true: the run returned None.
C9_Witness == pc = "done" /\ processors = 2 /\ ~seen.match /\ ~seen.fault /\ hooks.process_frame /\ frames_done = 2 /\ result = "None"

\* C10 as stated: a run with processors never ends, by returning or by an
\* exception, with a processor whose close hook was not invoked exactly once.
C10_AllClosedAtEnd == (pc \in {"done", "raised"} /\ processors > 0) => (\A k \in 1..processors : hooks.close[k] = 1)

\* C11 as stated: a missing or malformed section never makes the run fail:
\* no run ends with an exception raised while a section of the payload is
\* read (the list of values of a container section, the frame list of a
\* located stack trace).
C11_NeverFails == ~(pc = "raised" /\ raisedBy \in {"find_stacktraces_in_data", "frames"})

\* The stack traces present in payload d, as (section, position) places.
PresentIn(d) == {<<"exception", i>> : i \in {i \in 1..Len(d.exception.values) : d.exception.values[i].stacktrace.ok}} \cup (IF d.stacktrace.ok THEN {<<"stacktrace", 0>>} ELSE {}) \cup {<<"threads", i>> : i \in {i \in 1..Len(d.threads.values) : d.threads.values[i].stacktrace.ok}}

SlotRank(slot) == CASE slot = "exception" -> 1 [] slot = "stacktrace" -> 2 [] OTHER -> 3

\* C12: find_stacktraces_in_data returns one record per stack trace present:
\* those of the exceptions in list order (the exception is the container),
\* then the top-level one (no container), then those of the threads in
\* list order (the thread is the container); an absent section gives no
\* record and the Locator raises only for a section without 'values'.
C12_LocatorOrder == /\ pc = "acquire" => /\ {<<infos[k].slot, infos[k].index>> : k \in 1..Len(infos)} = PresentIn(data)
                                         /\ Len(infos) = Cardinality(PresentIn(data))
                                         /\ \A j \in 1..Len(infos) : \A k \in (j + 1)..Len(infos) : SlotRank(infos[j].slot) < SlotRank(infos[k].slot) \/ (infos[j].slot = infos[k].slot /\ infos[j].index < infos[k].index)
                                         /\ \A k \in 1..Len(infos) : (infos[k].slot = "stacktrace" <=> infos[k].index = 0) /\ StacktraceAt(data, infos[k]).frames \in {None, Some(<<OrigFrame(SlotRank(infos[k].slot), IF infos[k].index = 0 THEN 1 ELSE infos[k].index)>>)}
                    /\ pc = "raised" => (data.exception.kind = "novalues" \/ data.threads.kind = "novalues")

\* C12 witness: the first exception has no stack trace, the second has one;
\* with the top-level stack trace and two threads four records are returned.
C12_Witness == pc = "acquire" /\ Len(infos) = 4 /\ Len(data.exception.values) = 2 /\ ~data.exception.values[1].stacktrace.ok /\ infos[1].slot = "exception" /\ infos[1].index = 2 /\ infos[2].slot = "stacktrace" /\ infos[4].index = 2

\* C13: every process_frame call for the frame at position i (from 0) of a
\* stack trace that had L frames when its processing began gets the reverse
\* index L - 1 - i, whatever the earlier frames expanded to; the last frame
\* gets 0.
C13_ReverseIndex == \A n \in 1..Len(calls) :
                      LET orig == StacktraceAt(data0, infos[calls[n].record]).frames.val
                      IN \E i \in 0..(Len(orig) - 1) : orig[i + 1] = calls[n].frame /\ calls[n].reverse_index = Len(orig) - 1 - i

\* C13 witness: the first frame of two expanded to two frames, and the
\* second frame's first call got reverse index 0.
C13_Witness == pc = "chain" /\ idx = 1 /\ pj = 2 /\ Len(processed_frames) = 2 /\ Last(calls).frame = CurFrame /\ Last(calls).reverse_index = 0

\* C14: the metrics key is 'sourcemaps.process' exactly when the union of
\* the records' platforms is {"javascript"}, 'dsym.process' exactly when it
\* is {"cocoa"}, and 'mixed.process' for every other union (another single
\* platform, several platforms, none).
C14_MetricsKey == timer # "none" => /\ mkey = "sourcemaps.process" <=> PlatformsOf(infos) = {"javascript"}
                                    /\ mkey = "dsym.process" <=> PlatformsOf(infos) = {"cocoa"}
                                    /\ mkey = "mixed.process" <=> PlatformsOf(infos) \notin {{"javascript"}, {"cocoa"}}

\* C14 witness: a payload with both "javascript" and "cocoa" frames was
\* given the fallback key.
C14_Witness == timer = "running" /\ mkey = "mixed.process" /\ {"javascript", "cocoa"} \subseteq PlatformsOf(infos)

\* C15: the phases of a run are strictly ordered.  Every processor's
\* preprocess_related_data call is over before the first process_frame call
\* and none follows one; a process_frame call for record j happens when
\* exactly the records before j (in Locator order) have been merged; no
\* process_frame or preprocess call happens once a close call was made, and
\* the close calls start only when every record has been merged.
C15_PhaseOrder ==
    /\ [](hooks.process_frame => hooks.preprocess = processors)
    /\ [][hooks'.preprocess # hooks.preprocess => ~hooks.process_frame /\ records_done = 0 /\ \A k \in 1..processors : hooks.close[k] = 0]_vars
    /\ [][Called => Last(calls').record = records_done + 1 /\ hooks.preprocess = processors /\ \A k \in 1..processors : hooks.close[k] = 0]_vars
    /\ [][records_done' # records_done => records_done' = records_done + 1 /\ records_done' = ti /\ \A k \in 1..processors : hooks.close[k] = 0]_vars
    /\ []((\E k \in 1..processors : hooks.close[k] > 0) => records_done = Len(infos) /\ hooks.preprocess = processors)

\* C15 witness: two processors, two records of one frame each were chained
\* and merged one after the other, and the first close call was made.
C15_Witness == pc = "close" /\ processors = 2 /\ records_done = 2 /\ frames_done = 2 /\ hooks.preprocess = 2 /\ hooks.close[1] = 1

\* C16 as stated: in a run that records a timer, the timer is started after
\* the Locator scan and before processor acquisition begins: when the step
\* that acquires the processors is taken the timer is already running.
C16_Original == [][(pc = "acquire" /\ timer' = "running") => timer = "running"]_vars

\* C16 amended: in a run that records a timer, the timer is started after
\* the Locator scan and after the acquisition has returned a non-empty list
\* of processors, before the first preprocess hook; the timed span covers
\* the preprocess hooks, the frame chains with their merges and the close
\* hooks, and ends when the last close returns or an exception leaves the
\* run; the timer is tagged with the key of get_metrics_key for the located
\* records and with the payload's project.
C16_Amended == /\ timer = "running" <=> pc \in {"preprocess", "trace", "chain", "merge", "close"}
               /\ timer = "none" => hooks.preprocess = 0 /\ ~hooks.process_frame /\ \A k \in 1..processors : hooks.close[k] = 0
               /\ timer = "exited" => pc \in {"return", "done", "raised"}
               /\ timer # "none" => /\ processors > 0
                                    /\ infos = find_stacktraces_in_data(data0)
                                    /\ mkey = get_metrics_key(find_stacktraces_in_data(data0))
                                    /\ minstance = data0.project
               /\ pc \in {"locate", "acquire"} => timer = "none"

\* C16 witness: the timer, tagged 'dsym.process' and project 1, is still
\* running while the close hooks are called after a frame chain.
C16_Witness == pc = "close" /\ timer = "running" /\ mkey = "dsym.process" /\ minstance = 1 /\ hooks.process_frame /\ hooks.close[1] = 1

\* C17: the merge of a record writes its container's raw_stacktrace, and
\* marks the run changed for it, exactly when the raw result is not None and
\* the record has a container; no other container's raw_stacktrace changes.
\* For the top-level stack trace a raw result alone leaves the payload and
\* the changed flag as they were, and a run returns the payload for raw
\* results alone only if some container holds a raw stack trace.
C17_RawMerge ==
    /\ [][records_done' # records_done =>
            /\ \A k \in 1..Len(infos) : HasContainer(infos[k]) =>
                   IF k = ti /\ ret'.raw.ok THEN RawAt(data', infos[k]) = ret'.raw /\ changed' ELSE RawAt(data', infos[k]) = RawAt(data, infos[k])
            /\ (~ret'.processed.ok /\ ret'.errors = <<>> /\ ~(ret'.raw.ok /\ HasContainer(infos[ti]))) => (data' = data /\ changed' = changed)]_vars
    /\ []((pc = "done" /\ result = "data" /\ dirty \cap {"preprocess", "processed", "errors"} = {}) => \E k \in 1..Len(infos) : HasContainer(infos[k]) /\ RawAt(data, infos[k]).ok)

\* C17 witness: the only record is the top-level stack trace, its raw
\* variant came back expanded, and the run returned None.
C17_Witness == pc = "done" /\ result = "None" /\ Len(infos) = 1 /\ infos[1].slot = "stacktrace" /\ ret.raw.ok /\ ~ret.processed.ok /\ data = data0

\* C18: when the processed result of a record is not None, its merge sets
\* the frames of that record's stack trace, in the place where the payload
\* holds it, to the processed frames and keeps its other fields; the
\* container still holds that stack trace, the records still point at the
\* same places, and the stack trace of every other record is as before.
C18_ProcessedMerge ==
    [][(records_done' # records_done /\ ret'.processed.ok) =>
         /\ StacktraceAt(data', infos[ti]) = [StacktraceAt(data, infos[ti]) EXCEPT !.frames = Some(processed_frames)]
         /\ ret'.processed.st = StacktraceAt(data', infos[ti])
         /\ PresentIn(data') = PresentIn(data)
         /\ infos' = infos
         /\ \A k \in 1..Len(infos) : k # ti => StacktraceAt(data', infos[k]) = StacktraceAt(data, infos[k])]_vars

\* C18 witness: the first of two records had its single frame replaced by
\* two, its other field is kept, and the second record is about to start.
C18_Witness == pc = "trace" /\ ti = 2 /\ ret.processed.ok /\ Len(StacktraceAt(data0, infos[1]).frames.val) = 1 /\ Len(StacktraceAt(data, infos[1]).frames.val) = 2 /\ StacktraceAt(data, infos[1]).registers = "regs" /\ StacktraceAt(data, infos[2]) = StacktraceAt(data0, infos[2])

\* C19: each variant's frame list starts empty and, frame after frame in
\* the order of the input list, gains the matched result's expansion for
\* that variant when it is not None and else the input frame itself; no
\* other step changes the lists; at the end every input frame was visited
\* once, and a variant no result expanded equals the input frames.
C19_Concatenation ==
    /\ [][LET orig == StacktraceAt(data0, infos[ti]).frames.val
          IN CASE pc = "trace" /\ pc' # "raised" -> processed_frames' = <<>> /\ raw_frames' = <<>> /\ idx' = 0 /\ frame_count' = Len(orig)
               [] pc = "chain" /\ idx' # idx -> /\ idx' = idx + 1
                                                /\ processed_frames' = processed_frames \o Gain(orig[idx + 1], Last(calls').rv.kind, Last(calls').rv.processed)
                                                /\ raw_frames' = raw_frames \o Gain(orig[idx + 1], Last(calls').rv.kind, Last(calls').rv.raw)
               [] OTHER -> processed_frames' = processed_frames /\ raw_frames' = raw_frames /\ idx' = idx]_vars
    /\ [](pc = "merge" => /\ idx = Len(StacktraceAt(data0, infos[ti]).frames.val)
                          /\ ~expanded.processed => processed_frames = StacktraceAt(data0, infos[ti]).frames.val
                          /\ ~expanded.raw => raw_frames = StacktraceAt(data0, infos[ti]).frames.val)

\* C19 witness: of two frames the first was expanded to two processed
\* frames and no raw frame, the second was kept in both variants.
C19_Witness == pc = "merge" /\ frame_count = 2 /\ Len(processed_frames) = 3 /\ Len(raw_frames) = 1 /\ processed_frames[3] = StacktraceAt(data0, infos[ti]).frames.val[2] /\ raw_frames[1] = processed_frames[3]

\* C20: the payload's error list is its prior content followed by the
\* errors of the matched results, in the order the results were returned
\* (record after record, frame after frame): a call adds errors only if it
\* returned a result, which is the first match of its frame; the errors of a
\* record reach the payload at its merge; a run that returns has chained
\* every frame of every record, whatever errors were appended, and without
\* errors the list is left as it was.
C20_ErrorList ==
    /\ [][Called => reported' = reported \o (IF Last(calls').rv.kind = "tuple" THEN OrEmpty(Last(calls').rv.errors) ELSE <<>>) /\ Last(calls').proc = Len(calls') /\ \A n \in 1..(Len(calls') - 1) : calls'[n].rv.kind \in {"none", "raise"}]_vars
    /\ [][~Called => reported' = reported]_vars
    /\ [](pc \in {"trace", "close", "return", "done"} => OrEmpty(data.errors) = OrEmpty(data0.errors) \o reported)
    /\ [](pc \in {"chain", "merge"} => OrEmpty(data.errors) \o all_errors = OrEmpty(data0.errors) \o reported)
    /\ []((pc = "done" /\ processors > 0) => records_done = Len(infos) /\ frames_done = TotalFrames(data0))
    /\ [](reported = <<>> => data.errors = data0.errors)

\* C20 witness: a payload with a prior error, two records of one frame each,
\* each frame's result with errors; the run is over and the list holds the
\* prior error, then the first record's, then the second record's.
C20_Witness == pc = "done" /\ data0.errors.some /\ Len(infos) = 2 /\ records_done = 2 /\ Len(reported) >= 2 /\ reported[1].frame < reported[Len(reported)].frame /\ OrEmpty(data.errors) = OrEmpty(data0.errors) \o reported

====
